---- MODULE Spec2Model ----
(***************************************************************************)
(* Model of src/src/App.js: the plan orchestration (callPlanner,           *)
(* executePlan, callAgent and the agent handlers, handleSendMessage) and   *)
(* the embedding-based retrieval (findSimilarChunks, dotProduct).          *)
(*                                                                         *)
(* Representation of JavaScript values                                     *)
(*   - a string is a sequence of tokens; a token is a TLA+ string that     *)
(*     stands for a run of characters ("x", "{{step_1_output}}", "$&").    *)
(*     Placeholders, replacement patterns and the Markdown fence markers   *)
(*     are single tokens, so matching is done token by token.              *)
(*   - null and undefined are the one-token sequences Null and Undefined,  *)
(*     whose tokens occur in no string; Str is JavaScript's ToString.      *)
(*   - an object is a record; an absent property is an absent field.       *)
(*   - an embedding is a sequence of integers.                             *)
(***************************************************************************)
EXTENDS Integers, Sequences, FiniteSets, TLC

VARIABLES
    chatHistory,    \* useState([]) line 7, after the greeting effect of line 237
    userInput,      \* line 8
    uploadedFiles,  \* line 9
    vectorStore,    \* line 10
    attachedImage,  \* line 11
    isLoading,      \* line 12
    isIndexing,     \* line 13
    error,          \* line 14
    modelStatus,    \* line 16 (the ready flag)
    runs,           \* the handleSendMessage invocations: position and locals
    responses,      \* number of collaborator responses delivered so far
    query,          \* the findSimilarChunks call of the retrieval specification
    ingests,        \* the handleFileChange / processAndEmbedFiles invocations
    removed,        \* the names removeFile was called with, in order
    chunker         \* the chunkText call of the chunking specification

vars == <<chatHistory, userInput, uploadedFiles, vectorStore, attachedImage,
          isLoading, isIndexing, error, modelStatus, runs, responses, query,
          ingests, removed, chunker>>

-----------------------------------------------------------------------------
(* Bounds of the exploration *)

\* collaborator responses (language model, embedding model) delivered in one behaviour
MaxResponses == 4
\* handleSendMessage invocations that pass the guard in one behaviour
MaxRuns == 2
\* chunks in the index of the retrieval specification
MaxChunks == 4
\* characters in the text of the chunking specification
MaxLen == 4
\* largest chunkSize and overlap of the chunking specification
MaxSize == 3
\* handleFileChange invocations in one behaviour
MaxIngests == 2
\* removeFile calls in one behaviour
MaxRemovals == 1
\* positions of the file list at which a file can be removed or attached
MaxFiles == 4

-----------------------------------------------------------------------------
(* JavaScript values *)

Null == <<"<null>">>
Undefined == <<"<undefined>">>

\* ToString of a value used where a string is expected (template literals,
\* the replacement argument of String.prototype.replace)
Str(v) == IF v = Null THEN <<"null">> ELSE IF v = Undefined THEN <<"undefined">> ELSE v

FalsyOnlyNull(v) == v = Null

\* !v for a string, null or undefined
Falsy(v) == v = Null \/ v = Undefined \/ v = <<>>

\* tokens that are white space; String.prototype.trim() === ''
WhiteSpace == {" "}
TrimIsEmpty(s) == \A k \in 1..Len(s) : s[k] \in WhiteSpace

RECURSIVE ConcatAll(_)
ConcatAll(ss) == IF ss = <<>> THEN <<>> ELSE Head(ss) \o ConcatAll(Tail(ss))

\* first position of token t in s, 0 when absent (String.prototype.indexOf)
IndexOf(s, t) ==
    IF \E k \in 1..Len(s) : s[k] = t
    THEN CHOOSE k \in 1..Len(s) : s[k] = t /\ \A j \in 1..(k-1) : s[j] # t
    ELSE 0

\* the template literal {{${key}}} for the key step_${n}_output
PlaceholderText ==
    <<"{{step_1_output}}", "{{step_2_output}}", "{{step_3_output}}",
      "{{step_4_output}}", "{{step_5_output}}", "{{step_6_output}}">>
Placeholder(n) == PlaceholderText[n]

\* The replacement-pattern expansion of String.prototype.replace (GetSubstitution)
\* for a string pattern: $$ is a dollar sign, $& the matched text, "$<" (the
\* dollar sign followed by a grave accent) the text
\* before the match and $' the text after it.
Substitution(repl, matched, before, after) ==
    ConcatAll([k \in 1..Len(repl) |->
        CASE repl[k] = "$$" -> <<"$">>
          [] repl[k] = "$&" -> <<matched>>
          [] repl[k] = "$<" -> before
          [] repl[k] = "$'" -> after
          [] OTHER -> <<repl[k]>>])

\* s.replace(pat, repl) with a string pattern: the first occurrence only
Replace(s, pat, repl) ==
    LET k == IndexOf(s, pat) IN
    IF k = 0 THEN s
    ELSE SubSeq(s, 1, k-1)
         \o Substitution(Str(repl), pat, SubSeq(s, 1, k-1), SubSeq(s, k+1, Len(s)))
         \o SubSeq(s, k+1, Len(s))

\* every placeholder looked up in stepOutputs, a missing property giving undefined
SubstituteAnyPlaceholder(currentPrompt, stepOutputs) ==
    ConcatAll([k \in 1..Len(currentPrompt) |->
        IF \E n \in 1..Len(PlaceholderText) : currentPrompt[k] = Placeholder(n)
        THEN LET n == CHOOSE n \in 1..Len(PlaceholderText) : currentPrompt[k] = Placeholder(n)
             IN IF n <= Len(stepOutputs) THEN Str(stepOutputs[n].value) ELSE <<"undefined">>
        ELSE <<currentPrompt[k]>>])

\* stepOutputs is an object: its properties in insertion order, each a record
\* [key |-> n, value |-> text] for the property step_${n}_output.
\* for (const key in stepOutputs) currentPrompt = currentPrompt.replace(...)
RECURSIVE SubstituteOutputs(_, _)
SubstituteOutputs(currentPrompt, stepOutputs) ==
    IF stepOutputs = <<>> THEN currentPrompt
    ELSE SubstituteOutputs(
            Replace(currentPrompt, Placeholder(Head(stepOutputs).key), Head(stepOutputs).value),
            Tail(stepOutputs))

-----------------------------------------------------------------------------
(* The persisted format of a plan: JSON documents and the fenced block *)

KnowledgeAgent == "KnowledgeAgent"
WebSearchAgent == "WebSearchAgent"
CodeGenerationAgent == "CodeGenerationAgent"
SummarizationAgent == "SummarizationAgent"
ImageAnalysisAgent == "ImageAnalysisAgent"
RegisteredAgents ==
    {KnowledgeAgent, WebSearchAgent, CodeGenerationAgent, SummarizationAgent,
     ImageAnalysisAgent}

\* the markers of the regular expression of line 64: three grave accents, json and
\* a line feed open the block; a line feed and three grave accents close it
FenceOpen == "'''json\n"
FenceClose == "\n'''"

\* Plans the language model may answer with
PlanSubst ==
    << [agent |-> WebSearchAgent, prompt |-> <<"x">>],
       [agent |-> CodeGenerationAgent, prompt |-> <<"use ", "{{step_1_output}}">>] >>
PlanRefs ==
    << [agent |-> WebSearchAgent,
        prompt |-> <<"{{step_3_output}}", "{{step_1_output}}", "{{step_2_output}}">>],
       [agent |-> WebSearchAgent,
        prompt |-> <<"{{step_1_output}}", "+", "{{step_1_output}}", "{{step_2_output}}">>] >>
PlanUnknown ==
    << [agent |-> "FooAgent", prompt |-> <<"x">>],
       [agent |-> ImageAnalysisAgent, prompt |-> <<"look ", "{{step_1_output}}">>],
       [agent |-> WebSearchAgent, prompt |-> <<"y">>] >>
PlanChain ==
    << [agent |-> WebSearchAgent, prompt |-> <<"x">>],
       [agent |-> WebSearchAgent, prompt |-> <<"y">>],
       [agent |-> CodeGenerationAgent, prompt |-> <<"sum ", "{{step_1_output}}">>] >>
PlanKnowledge == << [agent |-> KnowledgeAgent, prompt |-> <<"q">>] >>
PlanSoft ==
    << [agent |-> SummarizationAgent, prompt |-> <<>>],
       [agent |-> KnowledgeAgent, prompt |-> <<"q">>],
       [agent |-> SummarizationAgent, prompt |-> <<"i.png">>],
       [agent |-> SummarizationAgent, prompt |-> <<"d.txt">>] >>

\* JSON values: an array is [type |-> "array", items |-> <<...>>]; an object that
\* is no array has no length; null is falsy.
JsonArray(items) == [type |-> "array", items |-> items]
JsonObject == [type |-> "object"]
JsonNull == [type |-> "null"]

\* The JSON texts that occur in responses, each one token, and what they denote
JsonDocuments ==
    [text : {"[PlanSubst]"}, value : {JsonArray(PlanSubst)}] \cup
    [text : {"[PlanRefs]"}, value : {JsonArray(PlanRefs)}] \cup
    [text : {"[PlanUnknown]"}, value : {JsonArray(PlanUnknown)}] \cup
    [text : {"[PlanSoft]"}, value : {JsonArray(PlanSoft)}] \cup
    [text : {"[PlanKnowledge]"}, value : {JsonArray(PlanKnowledge)}] \cup
    [text : {"[PlanChain]"}, value : {JsonArray(PlanChain)}] \cup
    [text : {"[]"}, value : {JsonArray(<<>>)}] \cup
    [text : {"{}"}, value : {JsonObject}] \cup
    [text : {"null"}, value : {JsonNull}]
JsonTexts == {d.text : d \in JsonDocuments}

\* JSON.parse: [ok |-> TRUE, value |-> v] or [ok |-> FALSE] for a SyntaxError.
\* A text is valid JSON when it is one JSON document, white space around it aside.
JSONParse(s) ==
    LET body == SelectSeq(s, LAMBDA t : t \notin WhiteSpace) IN
    IF Len(body) = 1 /\ body[1] \in JsonTexts
    THEN [ok |-> TRUE, value |-> (CHOOSE d \in JsonDocuments : d.text = body[1]).value]
    ELSE [ok |-> FALSE]

\* planJsonString.match(the regular expression): the leftmost opening marker
\* that has a closing marker after it, and the shortest text between them.
\* [found |-> FALSE] for null, else jsonMatch[1] in group.
FenceMatch(s) ==
    LET opens == {a \in 1..Len(s) : s[a] = FenceOpen /\ \E b \in (a+1)..Len(s) : s[b] = FenceClose} IN
    IF opens = {} THEN [found |-> FALSE]
    ELSE LET a == CHOOSE a \in opens : \A o \in opens : a <= o
             b == CHOOSE b \in (a+1)..Len(s) :
                     s[b] = FenceClose /\ \A c \in (a+1)..(b-1) : s[c] # FenceClose
         IN [found |-> TRUE, group |-> SubSeq(s, a+1, b-1)]

FallbackToKnowledge(prompt) ==
    [type |-> "array", items |-> << [agent |-> KnowledgeAgent, prompt |-> prompt] >>]

\* [{ agent: 'WebSearchAgent', prompt }]
FallbackPlan(prompt) == JsonArray(<< [agent |-> WebSearchAgent, prompt |-> prompt] >>)

\* the whole response parsed, the fenced block not looked for
ParsePlanWholeOnly(planJsonString, prompt) ==
    IF planJsonString = Null \/ planJsonString = Undefined THEN FallbackPlan(prompt)
    ELSE LET parsed == JSONParse(planJsonString)
         IN IF parsed.ok THEN parsed.value ELSE FallbackPlan(prompt)

\* callPlanner lines 62-73: the try block over the response of callGeminiAPI.
\* planJsonString.match throws a TypeError on null and undefined, which the
\* catch turns into the fallback plan like a SyntaxError of JSON.parse.
ParsePlan(planJsonString, prompt) ==
    IF planJsonString = Null \/ planJsonString = Undefined THEN FallbackPlan(prompt)
    ELSE LET jsonMatch == FenceMatch(planJsonString)
             text == IF jsonMatch.found /\ jsonMatch.group # <<>>
                     THEN jsonMatch.group ELSE planJsonString
             parsed == JSONParse(text)
         IN IF parsed.ok THEN parsed.value ELSE FallbackPlan(prompt)

\* callPlanner line 41: m.parts[0].text throws a TypeError for an entry without parts
HistoryThrows(conversationHistory) ==
    \E k \in 1..Len(conversationHistory) : "parts" \notin DOMAIN conversationHistory[k]

\* plan && plan.length > 0 (handleSendMessage line 160)
PlanIsRunnable(plan) == plan.type = "array" /\ Len(plan.items) > 0

\* chatHistory.slice(-4)
SliceFromStart(s, n) == IF Len(s) <= n THEN s ELSE SubSeq(s, 1, n)
SliceLast(s, n) == IF Len(s) <= n THEN s ELSE SubSeq(s, Len(s) - n + 1, Len(s))
RecentHistoryLength == 4

-----------------------------------------------------------------------------
(* Retrieval: dotProduct and findSimilarChunks *)

\* getClientSideEmbedding is called at lines 196 and 204 and defined nowhere in
\* src/; its callers test the result for falsiness (lines 197 and 205). Following
\* the embedding collaborator of the specification it yields a vector of the
\* fixed dimension, or NoEmbedding (the falsy result) when the embedding fails.
NoEmbedding == <<>>
Embeddings == {<<1, 0>>, <<0, 1>>, <<1, 1>>}
getClientSideEmbedding == Embeddings \cup {NoEmbedding}

\* line 241: let p = 0; for (i < vecA.length) p += vecA[i] * vecB[i]
RECURSIVE DotProductFrom(_, _, _)
DotProductFrom(vecA, vecB, i) ==
    IF i > Len(vecA) THEN 0 ELSE vecA[i] * vecB[i] + DotProductFrom(vecA, vecB, i + 1)
dotProduct(vecA, vecB) == DotProductFrom(vecA, vecB, 1)

\* the comparator of line 207: (a, b) => b.similarity - a.similarity
AscendingBug(a, b) == a.similarity - b.similarity
CompareSimilarity(a, b) == b.similarity - a.similarity

\* Array.prototype.sort is stable: x is placed behind every element that the
\* comparator does not order after it.
RECURSIVE InsertStable(_, _)
InsertStable(sorted, x) ==
    IF sorted = <<>> THEN <<x>>
    ELSE IF CompareSimilarity(Head(sorted), x) > 0
         THEN <<x>> \o sorted
         ELSE <<Head(sorted)>> \o InsertStable(Tail(sorted), x)

RECURSIVE SortStable(_)
SortStable(a) ==
    IF a = <<>> THEN <<>>
    ELSE InsertStable(SortStable(SubSeq(a, 1, Len(a) - 1)), a[Len(a)])

\* slice(0, n)
TopK == 3
SliceFirst(s, n) == IF Len(s) <= n THEN s ELSE SubSeq(s, 1, n)

\* line 203: the early return before the query is embedded
IndexUnavailable(store, ready) == Len(store) = 0 \/ ~ready

\* lines 206-208: every chunk scored, the scores sorted, the first three kept
RankBy(store, queryEmbedding) ==
    LET similarities ==
            [k \in 1..Len(store) |->
                [fileName |-> store[k].fileName, chunk |-> store[k].chunk,
                 embedding |-> store[k].embedding,
                 similarity |-> dotProduct(queryEmbedding, store[k].embedding)]]
    IN SliceFirst(SortStable(similarities), TopK)

RankChunksUnchecked(store, queryEmbedding) == RankBy(store, queryEmbedding)

\* lines 205-208: after the query embedding has come back
RankChunks(store, queryEmbedding) ==
    IF queryEmbedding = NoEmbedding THEN <<>> ELSE RankBy(store, queryEmbedding)

\* the array that the sort of line 207 has reordered, as an index
IndexSortedInPlace(store, queryEmbedding) ==
    IF queryEmbedding = NoEmbedding THEN store
    ELSE LET similarities ==
                [k \in 1..Len(store) |->
                    [fileName |-> store[k].fileName, chunk |-> store[k].chunk,
                     embedding |-> store[k].embedding,
                     similarity |-> dotProduct(queryEmbedding, store[k].embedding)]]
             sorted == SortStable(similarities)
         IN [k \in 1..Len(store) |->
                [fileName |-> sorted[k].fileName, chunk |-> sorted[k].chunk,
                 embedding |-> sorted[k].embedding]]

\* vectorStore after lines 206-208: vectorStore.map builds the new array
\* similarities, and it is that array which sort reorders and slice reads
IndexAfterQuery(store, queryEmbedding) == store

\* findSimilarChunks as a function of the closure and of the collaborator's answer
findSimilarChunks(store, ready, queryEmbedding) ==
    IF IndexUnavailable(store, ready) THEN <<>> ELSE RankChunks(store, queryEmbedding)

-----------------------------------------------------------------------------
(* chunkText (line 240) *)

\* text.substring(start, end): both indexes clamped to 0..text.length and put in
\* order; characters are counted from 0
Clamp(n, len) == IF n < 0 THEN 0 ELSE IF n > len THEN len ELSE n
SubstringAsSubstr(text, start, end) ==
    SubSeq(text, Clamp(start, Len(text)) + 1, Clamp(Clamp(start, Len(text)) + end, Len(text)))
Substring(text, start, end) ==
    LET a == Clamp(start, Len(text))
        b == Clamp(end, Len(text))
    IN IF a <= b THEN SubSeq(text, a + 1, b) ELSE SubSeq(text, b + 1, a)

\* the default values of the parameters chunkSize and overlap
DefaultChunkSize == 1000
DefaultOverlap == 200

\* A chunkText call: its arguments, the loop variable i and the array chunks.
\* pc is "loop" while the for statement runs and "returned" after return chunks.
ChunkCall(text, chunkSize, overlap) ==
    [pc |-> "loop", text |-> text, chunkSize |-> chunkSize, overlap |-> overlap,
     i |-> 0, chunks |-> <<>>]
IdleChunker == [pc |-> "idle"]

\* the loop condition i < text.length
LoopStopsAtLastFullChunk(c) == c.i + c.chunkSize <= Len(c.text)
LoopCondition(c) == c.i < Len(c.text)

\* the loop body chunks.push(text.substring(i, i + chunkSize)) and the update
\* i += chunkSize - overlap
ChunkIterationNoOverlap(c) ==
    [c EXCEPT !.chunks = Append(@, Substring(c.text, c.i, c.i + c.chunkSize)),
              !.i = @ + c.chunkSize]
ChunkIteration(c) ==
    [c EXCEPT !.chunks = Append(@, Substring(c.text, c.i, c.i + c.chunkSize)),
              !.i = @ + c.chunkSize - c.overlap]

\* the for statement run to its end; it has an end when overlap < chunkSize
RECURSIVE ChunkLoop(_)
ChunkLoop(c) == IF LoopCondition(c) THEN ChunkLoop(ChunkIteration(c)) ELSE c.chunks
chunkText(text, chunkSize, overlap) == ChunkLoop(ChunkCall(text, chunkSize, overlap))

-----------------------------------------------------------------------------
(* Files, chat entries and agent responses *)

NoImage == [none |-> TRUE]      \* attachedImage === null
NoError == <<>>                 \* error === null

\* The text of a document is a sequence of blocks of BlockLength characters, as
\* many as the default overlap. BlockLength divides both default parameters of
\* chunkText, so every chunk of such a text starts and ends at a block boundary,
\* and chunkText(textContent) is chunkText over the blocks with both parameters
\* counted in blocks.
BlockLength == DefaultOverlap
ChunkDocument(textContent) ==
    chunkText(textContent, DefaultChunkSize \div BlockLength, DefaultOverlap \div BlockLength)

DocText == <<"d1", "d2", "d3", "d4", "d5">>
DocFile ==
    [name |-> <<"d.txt">>, type |-> "text/plain", fileObject |-> DocText,
     textContent |-> DocText]
ImageFile ==
    [name |-> <<"i.png">>, type |-> "image/png", fileObject |-> <<"pixels">>,
     content |-> "base64"]

\* the chunks of DocFile with their embeddings, as processAndEmbedFiles stores them
DocVectors ==
    << [fileName |-> <<"d.txt">>, chunk |-> <<"d1", "d2", "d3", "d4", "d5">>,
        embedding |-> <<1, 0>>],
       [fileName |-> <<"d.txt">>, chunk |-> <<"d5">>, embedding |-> <<0, 1>>] >>

\* What was uploaded and indexed before the first message
Workspaces ==
    { [uploadedFiles |-> <<>>, vectorStore |-> <<>>],
      [uploadedFiles |-> <<DocFile, ImageFile>>, vectorStore |-> DocVectors] }

Greeting == [role |-> "model", parts |-> <<"Hello!">>]
Apology == [role |-> "model", parts |-> <<"I'm sorry, I couldn't create a plan for that request.">>]

UnknownAgentResponse(agent) ==
    [role |-> "model", agent |-> agent,
     parts |-> <<"Error: Unknown agent \"", agent, "\".">>]
NoInformationResponse ==
    [role |-> "model", agent |-> KnowledgeAgent,
     parts |-> <<"I couldn't find any relevant information in the uploaded documents to answer that.">>]
NoTextResponse(prompt) ==
    [role |-> "model", agent |-> SummarizationAgent,
     parts |-> <<"Error: Could not find document or text to summarize for \"">>
               \o Str(prompt) \o <<"\".">>]
NoImageResponse ==
    [role |-> "model", agent |-> ImageAnalysisAgent,
     parts |-> <<"Error: No image was attached.">>]

\* lines 132-133: uploadedFiles.find(f => f.name === prompt), then
\* file ? file.textContent : prompt
TextToSummarize(prompt, files) ==
    LET hits == {k \in 1..Len(files) : files[k].name = prompt} IN
    IF hits = {} THEN prompt
    ELSE LET file == files[CHOOSE k \in hits : \A h \in hits : k <= h] IN
         IF "textContent" \in DOMAIN file THEN file.textContent ELSE Undefined

\* line 117: the sources attached to a knowledge answer
Sources(similarChunks) ==
    [k \in 1..Len(similarChunks) |->
        [fileName |-> similarChunks[k].fileName, chunk |-> similarChunks[k].chunk]]

-----------------------------------------------------------------------------
(* handleFileChange, parseFileContent, processAndEmbedFiles and removeFile *)

IngestIds == 1..MaxIngests

\* The files the user may select. fileObject stands for the File: the text that
\* parseFileContent decodes from it.
NoteUpload ==
    [name |-> <<"n.txt">>, type |-> "text/plain",
     fileObject |-> <<"n1", "n2", "n3", "n4", "n5", "n6">>]
DocUpload == [name |-> <<"d.txt">>, type |-> "text/plain", fileObject |-> DocText]
PhotoUpload == [name |-> <<"p.png">>, type |-> "image/png", fileObject |-> <<"pixels">>]
SeveralFiles == <<PhotoUpload, DocUpload, NoteUpload>>

\* file.type.startsWith('image/')
IsImage(file) == file.type = "image/png"

\* what parseFileContent resolves to: the text of the file, or null after a
\* failure that its catch block has reported (line 184)
ParseOutcomes == {"text", "failed"}

\* A handleFileChange invocation with the processAndEmbedFiles call it makes:
\* files is newFilesToProcess, k the number of the file the loop is at, chunks the
\* chunks of that file and newVectors the array of line 189; readers holds the
\* images whose FileReader has not fired onload yet. embedded records, per file
\* embedded, the chunks and what getClientSideEmbedding returned for each.
\* pc: "parsing" awaits parseFileContent, "embedding" awaits Promise.all.
IdleIngest ==
    [pc |-> "idle", files |-> <<>>, k |-> 0, chunks |-> <<>>, newVectors |-> <<>>,
     readers |-> <<>>, embedded |-> <<>>]

\* The state one continuation of an ingest reads and writes
Ingestion(p) ==
    [ingest |-> ingests[p], uploadedFiles |-> uploadedFiles, vectorStore |-> vectorStore,
     isIndexing |-> isIndexing, error |-> error]

\* lines 199-200, after the loop over the files
MergeFirstOnly(g) ==
    [g EXCEPT !.vectorStore =
                    IF g.ingest.newVectors = <<>> THEN @
                    ELSE Append(@, Head(g.ingest.newVectors)),
              !.isIndexing = FALSE,
              !.ingest.pc = "done"]
MergeReplaces(g) ==
    [g EXCEPT !.vectorStore = g.ingest.newVectors,
              !.isIndexing = FALSE,
              !.ingest.pc = "done"]
Merge(g) ==
    [g EXCEPT !.vectorStore = @ \o g.ingest.newVectors,
              !.isIndexing = FALSE,
              !.ingest.pc = "done"]

\* the loop of line 190 from file number k on, up to the next await: image files
\* are skipped (line 191), the first other file is handed to parseFileContent
RECURSIVE LoopFrom(_, _)
LoopFrom(g, k) ==
    IF k > Len(g.ingest.files) THEN Merge(g)
    ELSE IF IsImage(g.ingest.files[k]) THEN LoopFrom(g, k + 1)
    ELSE [g EXCEPT !.ingest.pc = "parsing", !.ingest.k = k, !.ingest.chunks = <<>>]

\* processAndEmbedFiles lines 187-192, up to the first await
ProcessAndEmbedFiles(g, ready) ==
    IF ~ready
    THEN [g EXCEPT !.error = <<"Document model not ready.">>, !.ingest.pc = "done"]
    ELSE LoopFrom([g EXCEPT !.isIndexing = TRUE, !.ingest.newVectors = <<>>], 1)

\* line 194: prev.map(f => f.name === file.name ? { ...f, textContent } : f)
SetTextContent(files, name, textContent) ==
    [j \in 1..Len(files) |->
        IF files[j].name = name
        THEN [textContent |-> textContent] @@ files[j]
        ELSE files[j]]

\* line 197: the chunks with their embeddings, those without an embedding
\* filtered out
VectorsUnfiltered(name, chunks, embeddings) ==
    [j \in 1..Len(chunks) |->
        [fileName |-> name, chunk |-> chunks[j], embedding |-> embeddings[j]]]
Vectors(name, chunks, embeddings) ==
    SelectSeq([j \in 1..Len(chunks) |->
                    [fileName |-> name, chunk |-> chunks[j], embedding |-> embeddings[j]]],
              LAMBDA v : v.embedding # NoEmbedding)

\* removeFile: prev.filter(v => v.fileName !== fileName)
RemoveFirstChunk(store, fileName) ==
    LET hits == {j \in 1..Len(store) : store[j].fileName = fileName} IN
    IF hits = {} THEN store
    ELSE LET first == CHOOSE j \in hits : \A h \in hits : j <= h
         IN SubSeq(store, 1, first - 1) \o SubSeq(store, first + 1, Len(store))
RemoveChunks(store, fileName) == SelectSeq(store, LAMBDA v : v.fileName # fileName)

\* removeFile: prev.filter(f => f.name !== fileName)
RemoveNamed(files, fileName) == SelectSeq(files, LAMBDA f : f.name # fileName)

CommitIngest(p, g) ==
    /\ ingests' = [ingests EXCEPT ![p] = g.ingest]
    /\ uploadedFiles' = g.uploadedFiles
    /\ vectorStore' = g.vectorStore
    /\ isIndexing' = g.isIndexing
    /\ error' = g.error

-----------------------------------------------------------------------------
(* handleSendMessage, callPlanner, executePlan, callAgent and the handlers *)

RunIds == 1..MaxRuns

\* What the language model may answer
StepTexts == {<<"RESULT">>, <<"{{step_2_output}}">>}
GeminiOutcomes == StepTexts \cup {Null, Undefined}
PlannerTexts ==
    { <<"Sure, here is a plan.">>,
      <<"[PlanSubst]">>,
      <<"Plan: ", FenceOpen, "[PlanRefs]", FenceClose, " Done.">>,
      <<FenceOpen, "[PlanUnknown]", FenceClose>>,
      <<" ", "[PlanSoft]", " ">>,
      <<FenceOpen, "not json", FenceClose>>,
      <<FenceOpen, FenceClose>>,
      <<"[]">>, <<"{}">>, <<"null">> }
PlannerOutcomes == PlannerTexts \cup {Null, Undefined}
UserInputs == {<<"ask">>, <<" ">>}

\* A handleSendMessage invocation: its position, its locals and the state its
\* closures captured at the render it was created in. recentHistory is the
\* history handed to callPlanner (line 157). planJsonString keeps what
\* callGeminiAPI returned to callPlanner. trace records, per step dispatched, what
\* callAgent was called with, the callGeminiAPI calls the handler made, the number
\* of chunks findSimilarChunks returned to it (-1: not called or not yet returned)
\* and the response callAgent returned.
IdleRun ==
    [pc |-> "idle", prompt |-> <<>>, closure |-> [none |-> TRUE],
     recentHistory |-> <<>>, planJsonString |-> <<>>, plan |-> JsonNull, i |-> 0, stepOutputs |-> <<>>, currentPrompt |-> <<>>,
     similarChunks |-> <<>>, agentResponse |-> [none |-> TRUE],
     trace |-> <<>>]

\* pc: "planner" awaits callGeminiAPI in callPlanner; "embedding" awaits
\* getClientSideEmbedding in findSimilarChunks; "gemini" awaits callGeminiAPI in a
\* handler; "resume" is a handler that returned without a collaborator call, its
\* continuation queued as a microtask; "thrown" is a rejected handleSendMessage.

\* `step_${i + 1}_output`, the number it carries (i is the loop index, from 0)
StepNumber(i) == i + 1

\* The state one continuation reads and writes
Machine(r) ==
    [run |-> runs[r], chatHistory |-> chatHistory, attachedImage |-> attachedImage,
     isLoading |-> isLoading, error |-> error]

\* line 219: the catch block of callGeminiAPI
GenerationFailed(m) ==
    [m EXCEPT !.error = <<"Generation failed">>, !.isLoading = FALSE]

\* callAgent (lines 97-108) and the handler it selects, up to the handler's first
\* collaborator call or its early return
CallRegisteredAgent(run, agent, prompt) ==
    LET c == run.closure IN
    CASE agent = KnowledgeAgent ->
            IF IndexUnavailable(c.vectorStore, c.modelStatus)
            THEN [run EXCEPT !.pc = "resume", !.agentResponse = NoInformationResponse,
                             !.trace[Len(run.trace)].retrieved = 0]
            ELSE [run EXCEPT !.pc = "embedding"]
      [] agent \in {WebSearchAgent, CodeGenerationAgent} ->
            [run EXCEPT !.pc = "gemini"]
      [] agent = SummarizationAgent ->
            IF Falsy(TextToSummarize(prompt, c.uploadedFiles))
            THEN [run EXCEPT !.pc = "resume", !.agentResponse = NoTextResponse(prompt)]
            ELSE [run EXCEPT !.pc = "gemini"]
      [] agent = ImageAnalysisAgent ->
            IF c.attachedImage = NoImage
            THEN [run EXCEPT !.pc = "resume", !.agentResponse = NoImageResponse]
            ELSE [run EXCEPT !.pc = "gemini"]

CallAgentDefaultsToWebSearch(run, agent, prompt) ==
    IF agent \in RegisteredAgents
    THEN CallRegisteredAgent(run, agent, prompt)
    ELSE [run EXCEPT !.pc = "gemini"]

\* the switch of callAgent with its default case (line 105)
CallAgent(run, agent, prompt) ==
    IF agent \in RegisteredAgents
    THEN CallRegisteredAgent(run, agent, prompt)
    ELSE [run EXCEPT !.pc = "resume", !.agentResponse = UnknownAgentResponse(agent)]

\* line 87: the progress entry of the step at loop index i
ThinkingEntryOfTemplate(step, i, total, currentPrompt) ==
    [role |-> "model", agent |-> step.agent, thinking |-> TRUE,
     step |-> [current |-> i + 1, total |-> total, task |-> step.prompt]]
ThinkingEntry(step, i, total, currentPrompt) ==
    [role |-> "model", agent |-> step.agent, thinking |-> TRUE,
     step |-> [current |-> i + 1, total |-> total, task |-> currentPrompt]]

\* the resolved prompt written back into the step of the plan
StartStepInPlace(m) ==
    LET run == m.run
        step == run.plan.items[run.i + 1]
        currentPrompt == SubstituteOutputs(step.prompt, run.stepOutputs)
        thinking == ThinkingEntry(step, run.i, Len(run.plan.items), currentPrompt)
        called == [run EXCEPT !.currentPrompt = currentPrompt,
                              !.plan.items[run.i + 1].prompt = currentPrompt,
                              !.trace = Append(@, [agent |-> step.agent,
                                                   prompt |-> currentPrompt,
                                                   calls |-> 0, failed |-> FALSE,
                                                   retrieved |-> -1,
                                                   response |-> [none |-> TRUE]])]
    IN [m EXCEPT !.chatHistory = Append(@, thinking),
                 !.run = CallAgent(called, step.agent, currentPrompt)]

\* executePlan lines 79-89: one loop iteration up to await callAgent
StartStep(m) ==
    LET run == m.run
        step == run.plan.items[run.i + 1]
        currentPrompt == SubstituteOutputs(step.prompt, run.stepOutputs)
        thinking == ThinkingEntry(step, run.i, Len(run.plan.items), currentPrompt)
        called == [run EXCEPT !.currentPrompt = currentPrompt,
                              !.trace = Append(@, [agent |-> step.agent,
                                                   prompt |-> currentPrompt,
                                                   calls |-> 0, failed |-> FALSE,
                                                   retrieved |-> -1,
                                                   response |-> [none |-> TRUE]])]
    IN [m EXCEPT !.chatHistory = Append(@, thinking),
                 !.run = CallAgent(called, step.agent, currentPrompt)]

\* handleSendMessage line 166, after executePlan has returned
Finish(m) == [m EXCEPT !.isLoading = FALSE, !.run.pc = "done"]

\* the loop condition i < plan.length of line 78
HasNextStepButLast(run) == run.i < Len(run.plan.items) - 1
HasNextStep(run) == run.i < Len(run.plan.items)

\* the result kept as the only property of stepOutputs
RecordStepAlone(m, agentResponse) ==
    LET run == m.run IN
    [m EXCEPT
        !.run.stepOutputs = <<[key |-> StepNumber(run.i), value |-> agentResponse.parts]>>,
        !.chatHistory = Append(SubSeq(@, 1, Len(@) - 1),
                               [finalStep |-> (run.i = Len(run.plan.items) - 1)]
                               @@ agentResponse),
        !.run.trace[Len(run.trace)].response = agentResponse,
        !.run.i = @ + 1,
        !.run.agentResponse = [none |-> TRUE],
        !.run.similarChunks = <<>>]

\* one step recorded (lines 90 and 93) and the loop index advanced
RecordStep(m, agentResponse) ==
    LET run == m.run IN
    [m EXCEPT
        !.run.stepOutputs = Append(@, [key |-> StepNumber(run.i),
                                       value |-> agentResponse.parts]),
        !.chatHistory = Append(SubSeq(@, 1, Len(@) - 1),
                               [finalStep |-> (run.i = Len(run.plan.items) - 1)]
                               @@ agentResponse),
        !.run.trace[Len(run.trace)].response = agentResponse,
        !.run.i = @ + 1,
        !.run.agentResponse = [none |-> TRUE],
        !.run.similarChunks = <<>>]

CompleteStepWithoutAwait(m, agentResponse) ==
    LET next == [m EXCEPT !.run.i = @ + 1] IN
    IF HasNextStep(next.run) THEN StartStep(next) ELSE Finish(RecordStep(m, agentResponse))

\* executePlan lines 90-93 once callAgent has returned, then the next iteration
CompleteStep(m, agentResponse) ==
    LET recorded == RecordStep(m, agentResponse) IN
    IF HasNextStep(recorded.run) THEN StartStep(recorded) ELSE Finish(recorded)

\* handleSendMessage lines 160-166 with the plan callPlanner returned
RunPlan(m, plan) ==
    IF PlanIsRunnable(plan)
    THEN StartStep([m EXCEPT
            !.run.plan = plan,
            !.chatHistory = Append(@, [role |-> "model", agent |-> "Planner", plan |-> plan])])
    ELSE Finish([m EXCEPT !.run.plan = plan, !.chatHistory = Append(@, Apology)])

Commit(r, m) ==
    /\ runs' = [runs EXCEPT ![r] = m.run]
    /\ chatHistory' = m.chatHistory
    /\ attachedImage' = m.attachedImage
    /\ isLoading' = m.isLoading
    /\ error' = m.error

\* A queued continuation runs before any event is handled
MicrotaskPending == \E r \in RunIds : runs[r].pc = "resume"

-----------------------------------------------------------------------------
(* Events *)

\* earlier holds, for every call that has returned, the index it was made on,
\* the embedding of its query and its result
IdleQuery ==
    [pc |-> "idle", text |-> <<>>, embedded |-> "no", queryEmbedding |-> NoEmbedding,
     result |-> <<>>, earlier |-> {}]

Init ==
    /\ chatHistory = <<Greeting>>
    /\ userInput = <<>>
    /\ \E w \in Workspaces :
            uploadedFiles = w.uploadedFiles /\ vectorStore = w.vectorStore
    /\ attachedImage = NoImage
    /\ isLoading = FALSE
    /\ isIndexing = FALSE
    /\ error = NoError
    /\ modelStatus = TRUE
    /\ runs = [r \in RunIds |-> IdleRun]
    /\ responses = 0
    /\ query = IdleQuery
    /\ ingests = [p \in IngestIds |-> IdleIngest]
    /\ removed = <<>>
    /\ chunker = IdleChunker

\* the textarea of line 262: onChange, unless disabled
TypeInput(text) ==
    /\ ~MicrotaskPending
    /\ ~(isLoading \/ isIndexing \/ ~modelStatus)
    /\ userInput' = text
    /\ UNCHANGED <<chatHistory, uploadedFiles, vectorStore, attachedImage, isLoading,
                   isIndexing, error, modelStatus, runs, responses, query,
                   ingests, removed, chunker>>

\* the paperclip button of line 308: setAttachedImage(file)
AttachImage(k) ==
    /\ ~MicrotaskPending
    /\ k \in 1..Len(uploadedFiles)
    /\ uploadedFiles[k].type = "image/png"
    /\ attachedImage' = uploadedFiles[k]
    /\ UNCHANGED <<chatHistory, userInput, uploadedFiles, vectorStore, isLoading,
                   isIndexing, error, modelStatus, runs, responses, query,
                   ingests, removed, chunker>>

\* onRemove of line 260: setAttachedImage(null)
RemoveAttachedImage ==
    /\ ~MicrotaskPending
    /\ attachedImage # NoImage
    /\ attachedImage' = NoImage
    /\ UNCHANGED <<chatHistory, userInput, uploadedFiles, vectorStore, isLoading,
                   isIndexing, error, modelStatus, runs, responses, query,
                   ingests, removed, chunker>>

\* handleSendMessage lines 147-159, up to the await of callGeminiAPI in callPlanner
HandleSendMessage(r) ==
    /\ ~MicrotaskPending
    /\ runs[r].pc = "idle"
    /\ \A q \in 1..(r-1) : runs[q].pc # "idle"
    /\ IF TrimIsEmpty(userInput) \/ isLoading \/ isIndexing
       THEN UNCHANGED vars
       ELSE LET newUserMessage ==
                    [role |-> "user", parts |-> userInput, image |-> attachedImage]
                recentHistory == SliceLast(chatHistory, RecentHistoryLength)
            IN /\ chatHistory' = Append(chatHistory, newUserMessage)
               /\ userInput' = <<>>
               /\ isLoading' = TRUE
               /\ error' = NoError
               /\ runs' = [runs EXCEPT ![r] =
                    [IdleRun EXCEPT
                        !.prompt = userInput,
                        !.recentHistory = recentHistory,
                        !.closure = [uploadedFiles |-> uploadedFiles,
                                     vectorStore |-> vectorStore,
                                     attachedImage |-> attachedImage,
                                     modelStatus |-> modelStatus],
                        !.pc = IF HistoryThrows(recentHistory) THEN "thrown" ELSE "planner"]]
               /\ UNCHANGED <<uploadedFiles, vectorStore, attachedImage, isIndexing,
                              modelStatus, responses, query, ingests, removed, chunker>>

\* callGeminiAPI answers callPlanner (line 61); lines 62-73 and 160-166 follow, and
\* the first step is dispatched
PlannerResponse(r, planJsonString) ==
    /\ ~MicrotaskPending
    /\ runs[r].pc = "planner"
    /\ responses < MaxResponses
    /\ responses' = responses + 1
    /\ LET m == IF planJsonString = Null THEN GenerationFailed(Machine(r)) ELSE Machine(r)
           answered == [m EXCEPT !.run.planJsonString = planJsonString]
       IN Commit(r, RunPlan(answered, ParsePlan(planJsonString, runs[r].prompt)))
    /\ UNCHANGED <<userInput, uploadedFiles, vectorStore, isIndexing, modelStatus, query,
                   ingests, removed, chunker>>

\* getClientSideEmbedding answers findSimilarChunks (line 204); lines 205-208 and
\* 113-116 follow
EmbeddingResponse(r, queryEmbedding) ==
    /\ ~MicrotaskPending
    /\ runs[r].pc = "embedding"
    /\ responses < MaxResponses
    /\ responses' = responses + 1
    /\ LET similarChunks == RankChunks(runs[r].closure.vectorStore, queryEmbedding)
       IN IF Len(similarChunks) = 0
          THEN Commit(r, CompleteStep(
                    [Machine(r) EXCEPT !.run.trace[Len(runs[r].trace)].retrieved = 0],
                    NoInformationResponse))
          ELSE /\ runs' = [runs EXCEPT ![r].pc = "gemini",
                                       ![r].similarChunks = similarChunks,
                                       ![r].trace[Len(runs[r].trace)].retrieved =
                                            Len(similarChunks)]
               /\ UNCHANGED <<chatHistory, attachedImage, isLoading, error>>
    /\ UNCHANGED <<userInput, uploadedFiles, vectorStore, isIndexing, modelStatus, query,
                   ingests, removed, chunker>>

\* the response a handler builds from the text callGeminiAPI returned
\* (lines 118, 123, 128, 137, 143)
HandlerResponse(run, agent, text) ==
    IF agent = KnowledgeAgent
    THEN [role |-> "model", agent |-> agent, parts |-> text,
          sources |-> Sources(run.similarChunks)]
    ELSE [role |-> "model", agent |-> agent, parts |-> text]

\* callGeminiAPI answers a handler; the handler returns, executePlan records the
\* step and goes on to the next one
GeminiResponse(r, text) ==
    /\ ~MicrotaskPending
    /\ runs[r].pc = "gemini"
    /\ responses < MaxResponses
    /\ responses' = responses + 1
    /\ LET run == runs[r]
           agent == run.plan.items[run.i + 1].agent
           n == Len(run.trace)
           m0 == IF text = Null THEN GenerationFailed(Machine(r)) ELSE Machine(r)
           m1 == [m0 EXCEPT !.run.trace[n].calls = @ + 1,
                            !.run.trace[n].failed = (text = Null),
                            !.attachedImage =
                                IF agent = ImageAnalysisAgent THEN NoImage ELSE @]
       IN Commit(r, CompleteStep(m1, HandlerResponse(run, agent, text)))
    /\ UNCHANGED <<userInput, uploadedFiles, vectorStore, isIndexing, modelStatus, query,
                   ingests, removed, chunker>>

\* the continuation of await callAgent after a handler that called no collaborator
Resume(r) ==
    /\ runs[r].pc = "resume"
    /\ Commit(r, CompleteStep(Machine(r), runs[r].agentResponse))
    /\ UNCHANGED <<userInput, uploadedFiles, vectorStore, isIndexing, modelStatus,
                   responses, query, ingests, removed, chunker>>

\* what getClientSideEmbedding may return for the chunks of a file, in the order
\* of the chunks (the array Promise.all resolves to)
ChunkEmbeddings == {<<1, 1>>, NoEmbedding}
EmbeddingArrays == UNION {[1..n -> ChunkEmbeddings] : n \in 1..2}

\* handleFileChange (lines 221-234) with the synchronous part of
\* processAndEmbedFiles; the file input is disabled until the model is ready
HandleFileChange(p, files) ==
    /\ ~MicrotaskPending
    /\ modelStatus
    /\ ingests[p].pc = "idle"
    /\ \A q \in 1..(p-1) : ingests[q].pc # "idle"
    /\ LET newFilesToProcess == SelectSeq(files, LAMBDA f : ~IsImage(f))
           images == SelectSeq(files, IsImage)
           g == [ingest |-> [IdleIngest EXCEPT !.files = newFilesToProcess,
                                               !.readers = images],
                 uploadedFiles |-> uploadedFiles \o newFilesToProcess,
                 vectorStore |-> vectorStore,
                 isIndexing |-> isIndexing,
                 error |-> NoError]
       IN CommitIngest(p, IF Len(newFilesToProcess) > 0
                          THEN ProcessAndEmbedFiles(g, modelStatus)
                          ELSE [g EXCEPT !.ingest.pc = "done"])
    /\ UNCHANGED <<chatHistory, userInput, attachedImage, isLoading, modelStatus, runs,
                   responses, query, removed, chunker>>

\* reader.onload of line 229 for an image of the selection
ReaderLoad(p) ==
    /\ ~MicrotaskPending
    /\ ingests[p].readers # <<>>
    /\ uploadedFiles' =
            Append(uploadedFiles, [content |-> "base64"] @@ Head(ingests[p].readers))
    /\ ingests' = [ingests EXCEPT ![p].readers = Tail(@)]
    /\ UNCHANGED <<chatHistory, userInput, vectorStore, attachedImage, isLoading,
                   isIndexing, error, modelStatus, runs, responses, query, removed, chunker>>

\* parseFileContent returns to line 192; lines 193-196 follow, or the next file
ParseResponse(p, outcome) ==
    /\ ~MicrotaskPending
    /\ ingests[p].pc = "parsing"
    /\ responses < MaxResponses
    /\ responses' = responses + 1
    /\ LET g == Ingestion(p)
           file == g.ingest.files[g.ingest.k]
           textContent == IF outcome = "text" THEN file.fileObject ELSE Null
           parsed == IF outcome = "failed"
                     THEN [g EXCEPT !.error = <<"Could not parse ">> \o file.name]
                     ELSE g
       IN IF Falsy(textContent)
          THEN CommitIngest(p, LoopFrom(parsed, g.ingest.k + 1))
          ELSE CommitIngest(p, [parsed EXCEPT
                    !.uploadedFiles = SetTextContent(@, file.name, textContent),
                    !.ingest.chunks = ChunkDocument(textContent),
                    !.ingest.pc = "embedding"])
    /\ UNCHANGED <<chatHistory, userInput, attachedImage, isLoading, modelStatus, runs,
                   query, removed, chunker>>

\* Promise.all of line 196 resolves; line 197 follows, then the next file or the
\* merge of lines 199-200
EmbedResponse(p, embeddings) ==
    /\ ~MicrotaskPending
    /\ ingests[p].pc = "embedding"
    /\ Len(embeddings) = Len(ingests[p].chunks)
    /\ responses < MaxResponses
    /\ responses' = responses + 1
    /\ LET g == Ingestion(p)
           file == g.ingest.files[g.ingest.k]
           pushed == [g EXCEPT
                        !.ingest.newVectors =
                            @ \o Vectors(file.name, g.ingest.chunks, embeddings),
                        !.ingest.embedded =
                            Append(@, [fileName |-> file.name, chunks |-> g.ingest.chunks,
                                       embeddings |-> embeddings])]
       IN CommitIngest(p, LoopFrom(pushed, g.ingest.k + 1))
    /\ UNCHANGED <<chatHistory, userInput, attachedImage, isLoading, modelStatus, runs,
                   query, removed, chunker>>

\* removeFile (line 235) for the file listed at position k
RemoveFile(k) ==
    /\ ~MicrotaskPending
    /\ k \in 1..Len(uploadedFiles)
    /\ Len(removed) < MaxRemovals
    /\ removed' = Append(removed, uploadedFiles[k].name)
    /\ LET fileName == uploadedFiles[k].name IN
        /\ uploadedFiles' = RemoveNamed(uploadedFiles, fileName)
        /\ vectorStore' = RemoveChunks(vectorStore, fileName)
        /\ attachedImage' =
                IF attachedImage # NoImage /\ attachedImage.name = fileName
                THEN NoImage ELSE attachedImage
    /\ UNCHANGED <<chatHistory, userInput, isLoading, isIndexing, error, modelStatus,
                   runs, responses, query, ingests, chunker>>

Next ==
    \/ \E text \in UserInputs : TypeInput(text)
    \/ \E k \in 1..2 : AttachImage(k)
    \/ RemoveAttachedImage
    \/ \E r \in RunIds : HandleSendMessage(r)
    \/ \E r \in RunIds, planJsonString \in PlannerOutcomes : PlannerResponse(r, planJsonString)
    \/ \E r \in RunIds, queryEmbedding \in getClientSideEmbedding :
            EmbeddingResponse(r, queryEmbedding)
    \/ \E r \in RunIds, text \in GeminiOutcomes : GeminiResponse(r, text)
    \/ \E r \in RunIds : Resume(r)

Spec == Init /\ [][Next]_vars

\* Every collaborator call returns or fails, and a queued continuation runs: an
\* invocation that waits for a response gets one, as long as responses are
\* delivered at all (fewer than MaxResponses so far)
Responds(r) ==
    \/ \E planJsonString \in PlannerOutcomes : PlannerResponse(r, planJsonString)
    \/ \E queryEmbedding \in getClientSideEmbedding : EmbeddingResponse(r, queryEmbedding)
    \/ \E text \in GeminiOutcomes : GeminiResponse(r, text)
    \/ Resume(r)

SpecLive == Init /\ [][Next]_vars /\ \A r \in RunIds : WF_vars(Responds(r))

-----------------------------------------------------------------------------
(* The resolution specification: messages whose plan has a third step that    *)
(* refers to the output of the first                                          *)

ChainPlannerTexts == { <<"[PlanChain]">> }

NextResolve ==
    \/ \E text \in UserInputs : TypeInput(text)
    \/ \E r \in RunIds : HandleSendMessage(r)
    \/ \E r \in RunIds, planJsonString \in ChainPlannerTexts :
            PlannerResponse(r, planJsonString)
    \/ \E r \in RunIds, text \in GeminiOutcomes : GeminiResponse(r, text)

SpecResolve == Init /\ [][NextResolve]_vars

-----------------------------------------------------------------------------
(* The ingest specification: uploads of documents, ingests and removals,      *)
(* together with messages whose plan asks the KnowledgeAgent                  *)

\* what the collaborators answer in this specification
IngestPlannerTexts == { <<"[PlanKnowledge]">> }
IngestStepTexts == { <<"RESULT">> }
QueryEmbeddings == { <<1, 1>> }

\* the document selected at the upload number p
SelectionAt(p) == IF p % 2 = 1 THEN <<NoteUpload>> ELSE <<DocUpload>>

\* the workspace with a document indexed
InitIngest == Init /\ vectorStore = DocVectors

NextIngest ==
    \/ \E p \in IngestIds : HandleFileChange(p, SelectionAt(p))
    \/ \E p \in IngestIds, outcome \in ParseOutcomes : ParseResponse(p, outcome)
    \/ \E p \in IngestIds, embeddings \in EmbeddingArrays : EmbedResponse(p, embeddings)
    \/ \E k \in 1..MaxFiles : RemoveFile(k)
    \/ TypeInput(<<"ask">>)
    \/ \E r \in RunIds : HandleSendMessage(r)
    \/ \E r \in RunIds, planJsonString \in IngestPlannerTexts :
            PlannerResponse(r, planJsonString)
    \/ \E r \in RunIds, queryEmbedding \in QueryEmbeddings :
            EmbeddingResponse(r, queryEmbedding)
    \/ \E r \in RunIds, text \in IngestStepTexts : GeminiResponse(r, text)
    \/ \E r \in RunIds : Resume(r)

SpecIngest == InitIngest /\ [][NextIngest]_vars

-----------------------------------------------------------------------------
(* The file specification: selections of several files, images among them,    *)
(* their ingest, attaching and removal, with no message sent                  *)

\* the files selected at the upload number p
FilesAt(p) == IF p = 1 THEN SeveralFiles ELSE <<NoteUpload>>

NextFiles ==
    \/ \E p \in IngestIds : HandleFileChange(p, FilesAt(p))
    \/ \E p \in IngestIds : ReaderLoad(p)
    \/ \E p \in IngestIds, outcome \in ParseOutcomes : ParseResponse(p, outcome)
    \/ \E p \in IngestIds, embeddings \in EmbeddingArrays : EmbedResponse(p, embeddings)
    \/ \E k \in 1..MaxFiles : RemoveFile(k)
    \/ \E k \in 1..MaxFiles : AttachImage(k)
    \/ RemoveAttachedImage

SpecFiles == InitIngest /\ [][NextFiles]_vars

-----------------------------------------------------------------------------
(* The retrieval specification: findSimilarChunks over the indexes of at most *)
(* MaxChunks chunks                                                           *)

ChunkTexts == <<"c1", "c2", "c3", "c4", "c5", "c6">>
IndexedFileName(k) == IF k % 2 = 1 THEN <<"a.txt">> ELSE <<"b.txt">>

\* an index is non-empty only once the embedding model is ready (line 187)
InitRetrieval ==
    /\ chatHistory = <<Greeting>>
    /\ userInput = <<>>
    /\ uploadedFiles = <<>>
    /\ \E n \in 0..MaxChunks : \E embeddings \in [1..n -> Embeddings] :
            vectorStore = [k \in 1..n |->
                [fileName |-> IndexedFileName(k), chunk |-> <<ChunkTexts[k]>>,
                 embedding |-> embeddings[k]]]
    /\ modelStatus \in BOOLEAN
    /\ ~modelStatus => vectorStore = <<>>
    /\ attachedImage = NoImage
    /\ isLoading = FALSE
    /\ isIndexing = FALSE
    /\ error = NoError
    /\ runs = [r \in RunIds |-> IdleRun]
    /\ responses = 0
    /\ query = IdleQuery
    /\ ingests = [p \in IngestIds |-> IdleIngest]
    /\ removed = <<>>
    /\ chunker = IdleChunker

\* findSimilarChunks line 203, then the await of line 204
QueryBegin(text) ==
    /\ query.pc = "idle"
    /\ query' = IF IndexUnavailable(vectorStore, modelStatus)
                THEN [pc |-> "done", text |-> text, embedded |-> "no",
                      queryEmbedding |-> NoEmbedding,
                      result |-> findSimilarChunks(vectorStore, modelStatus, NoEmbedding),
                      earlier |-> query.earlier]
                ELSE [query EXCEPT !.pc = "embedding", !.text = text]
    /\ UNCHANGED <<chatHistory, userInput, uploadedFiles, vectorStore, attachedImage,
                   isLoading, isIndexing, error, modelStatus, runs, responses,
                   ingests, removed, chunker>>

\* the embedding comes back, or fails; lines 205-208
QueryEmbedded(queryEmbedding) ==
    /\ query.pc = "embedding"
    /\ query' = [pc |-> "done", text |-> query.text,
                 embedded |-> IF queryEmbedding = NoEmbedding THEN "failed" ELSE "yes",
                 queryEmbedding |-> queryEmbedding,
                 result |-> findSimilarChunks(vectorStore, modelStatus, queryEmbedding),
                 earlier |-> query.earlier]
    /\ vectorStore' = IndexAfterQuery(vectorStore, queryEmbedding)
    /\ UNCHANGED <<chatHistory, userInput, uploadedFiles, attachedImage,
                   isLoading, isIndexing, error, modelStatus, runs, responses,
                   ingests, removed, chunker>>

\* the caller has consumed the result
QueryReturn ==
    /\ query.pc = "done"
    /\ query' = [IdleQuery EXCEPT !.earlier =
                    query.earlier \cup {[index |-> vectorStore,
                                         queryEmbedding |-> query.queryEmbedding,
                                         result |-> query.result]}]
    /\ UNCHANGED <<chatHistory, userInput, uploadedFiles, vectorStore, attachedImage,
                   isLoading, isIndexing, error, modelStatus, runs, responses,
                   ingests, removed, chunker>>

NextRetrieval ==
    \/ QueryBegin(<<"q">>)
    \/ \E queryEmbedding \in getClientSideEmbedding : QueryEmbedded(queryEmbedding)
    \/ QueryReturn

SpecRetrieval == InitRetrieval /\ [][NextRetrieval]_vars

-----------------------------------------------------------------------------
(* The chunking specification: chunkText over the texts of at most MaxLen     *)
(* characters, with every chunkSize in 1..MaxSize and overlap in 0..MaxSize   *)

Characters == {"a", "b"}
Texts == UNION {[1..n -> Characters] : n \in 0..MaxLen}

\* iterations explored of a loop that has no end
MaxIterations == MaxLen + 2

InitChunk ==
    /\ chatHistory = <<Greeting>>
    /\ userInput = <<>>
    /\ uploadedFiles = <<>>
    /\ vectorStore = <<>>
    /\ attachedImage = NoImage
    /\ isLoading = FALSE
    /\ isIndexing = FALSE
    /\ error = NoError
    /\ modelStatus = TRUE
    /\ runs = [r \in RunIds |-> IdleRun]
    /\ responses = 0
    /\ query = IdleQuery
    /\ ingests = [p \in IngestIds |-> IdleIngest]
    /\ removed = <<>>
    /\ \E text \in Texts, chunkSize \in 1..MaxSize, overlap \in 0..MaxSize :
            chunker = ChunkCall(text, chunkSize, overlap)

\* one iteration of the for statement of line 240
ChunkNext ==
    /\ chunker.pc = "loop"
    /\ LoopCondition(chunker)
    /\ Len(chunker.chunks) < MaxIterations
    /\ chunker' = ChunkIteration(chunker)
    /\ UNCHANGED <<chatHistory, userInput, uploadedFiles, vectorStore, attachedImage,
                   isLoading, isIndexing, error, modelStatus, runs, responses, query,
                   ingests, removed>>

\* the loop condition is false: return chunks
ChunkReturn ==
    /\ chunker.pc = "loop"
    /\ ~LoopCondition(chunker)
    /\ chunker' = [chunker EXCEPT !.pc = "returned"]
    /\ UNCHANGED <<chatHistory, userInput, uploadedFiles, vectorStore, attachedImage,
                   isLoading, isIndexing, error, modelStatus, runs, responses, query,
                   ingests, removed>>

NextChunk == ChunkNext \/ ChunkReturn

SpecChunk == InitChunk /\ [][NextChunk]_vars

-----------------------------------------------------------------------------
(* Properties *)

Min(a, b) == IF a <= b THEN a ELSE b
Started(run) == run.pc \notin {"idle", "planner", "thrown"}
Steps(run) == IF run.plan.type = "array" THEN run.plan.items ELSE <<>>
Count(token, s) == Cardinality({k \in 1..Len(s) : s[k] = token})
Contains(s, token) == \E k \in 1..Len(s) : s[k] = token

\* C1: the steps of a plan are dispatched in plan order and one at a time: step
\* n is handed to callAgent only when the outputs of steps 1..n-1 are recorded in
\* stepOutputs, under their own keys, so at most one step is running.
C1_StepsInOrder ==
    \A r \in RunIds :
        LET run == runs[r] IN
        /\ Len(run.trace) \in {Len(run.stepOutputs), Len(run.stepOutputs) + 1}
        /\ Len(run.trace) <= Len(Steps(run))
        /\ \A n \in 1..Len(run.trace) : run.trace[n].agent = Steps(run)[n].agent
        /\ \A n \in 1..Len(run.stepOutputs) :
                /\ run.stepOutputs[n].key = n
                /\ run.stepOutputs[n].value = run.trace[n].response.parts
        /\ run.pc \in {"embedding", "gemini", "resume"}
                <=> Len(run.trace) = Len(run.stepOutputs) + 1

C1_Witness ==
    \E r \in RunIds :
        /\ runs[r].pc = "gemini"
        /\ Len(runs[r].trace) = 3
        /\ Len(runs[r].stepOutputs) = 2

\* the prompt of step n as the specification resolves it: every occurrence of the
\* placeholder of a completed step j < n stands for the recorded output of step j
ResolveEvery(template, stepOutputs, n) ==
    ConcatAll([k \in 1..Len(template) |->
        IF \E j \in 1..(n-1) : template[k] = Placeholder(j)
        THEN Str(stepOutputs[CHOOSE j \in 1..(n-1) : template[k] = Placeholder(j)].value)
        ELSE <<template[k]>>])

\* C2: the prompt dispatched for step n is the step's template with every
\* occurrence of {{step_j_output}}, j < n, replaced by the recorded output of
\* step j, also when a placeholder occurs more than once.
C2_EveryOccurrenceReplaced ==
    \A r \in RunIds : \A n \in 1..Len(runs[r].trace) :
        runs[r].trace[n].prompt =
            ResolveEvery(Steps(runs[r])[n].prompt, runs[r].stepOutputs, n)

\* C3: a placeholder {{step_k_output}} with k >= n in the template of step n is
\* still in the prompt dispatched for step n, and the plan is not stopped by it:
\* a run that has a plan never throws and ends with every step dispatched.
C3_UnresolvedLeftLiteral ==
    \A r \in RunIds :
        LET run == runs[r] IN
        /\ \A n \in 1..Len(run.trace) : \A k \in n..Len(PlaceholderText) :
                Count(Placeholder(k), run.trace[n].prompt)
                    >= Count(Placeholder(k), Steps(run)[n].prompt)
        /\ run.pc = "thrown" => run.trace = <<>> /\ run.plan = JsonNull
        /\ run.pc = "done" => Len(run.trace) = Len(Steps(run))

C3_Witness ==
    \E r \in RunIds :
        /\ runs[r].plan = JsonArray(PlanRefs)
        /\ runs[r].pc = "done"
        /\ runs[r].trace[1].prompt =
                <<"{{step_3_output}}", "{{step_1_output}}", "{{step_2_output}}">>
        /\ Contains(runs[r].trace[2].prompt, "RESULT")
        /\ Count("{{step_2_output}}", runs[r].trace[2].prompt) = 1

\* C4: callPlanner never throws and returns a plan of at least one step, whatever
\* the history and whatever the language model answers.
C4_PlannerAlwaysPlans ==
    \A r \in RunIds :
        /\ runs[r].pc # "thrown"
        /\ Started(runs[r]) =>
                runs[r].plan.type = "array" /\ Len(runs[r].plan.items) >= 1

\* C5: a response that is text, is not valid JSON and has no fenced block yields
\* exactly the one-step plan of WebSearchAgent with the original request.
NoFencedBlock(s) == ~ \E a, b \in 1..Len(s) : a < b /\ s[a] = FenceOpen /\ s[b] = FenceClose
IsText(v) == v # Null /\ v # Undefined
C5_FallbackPlan ==
    \A r \in RunIds :
        LET run == runs[r] IN
        (/\ Started(run)
         /\ IsText(run.planJsonString)
         /\ ~JSONParse(run.planJsonString).ok
         /\ NoFencedBlock(run.planJsonString))
        => /\ run.plan = [type |-> "array",
                          items |-> << [agent |-> "WebSearchAgent", prompt |-> run.prompt] >>]
           /\ Len(run.trace) >= 1
           /\ run.trace[1].agent = "WebSearchAgent"
           /\ run.trace[1].prompt = run.prompt

C5_Witness ==
    \E r \in RunIds :
        /\ runs[r].pc = "done"
        /\ runs[r].planJsonString = <<"Sure, here is a plan.">>
        /\ runs[r].prompt = <<"ask">>
        /\ Len(runs[r].stepOutputs) = 1

\* C6: a failed language-model call during a step aborts the run: no later step
\* of the plan is dispatched and exactly one error is surfaced (one step of the
\* run has made callGeminiAPI set the error).
C6_FailureAbortsRun ==
    \A r \in RunIds : \A n \in 1..Len(runs[r].trace) :
        runs[r].trace[n].failed =>
            /\ Len(runs[r].trace) = n
            /\ Cardinality({k \in 1..Len(runs[r].trace) : runs[r].trace[k].failed}) = 1

\* C7: a step whose agent is not registered yields a result that names the agent
\* as unknown, with no language-model call and no throw, and the step after it is
\* dispatched.
C7_UnknownAgentIsSoft ==
    \A r \in RunIds :
        LET run == runs[r] IN
        \A n \in 1..Len(run.trace) :
            run.trace[n].agent \notin RegisteredAgents =>
                /\ run.trace[n].calls = 0
                /\ run.pc # "thrown"
                /\ n = Len(run.stepOutputs) + 1 => run.pc = "resume"
                /\ n <= Len(run.stepOutputs) =>
                    /\ run.trace[n].response.agent = run.trace[n].agent
                    /\ run.trace[n].response.parts =
                            <<"Error: Unknown agent \"", run.trace[n].agent, "\".">>
                    /\ run.stepOutputs[n].value = run.trace[n].response.parts
                    /\ n < Len(Steps(run)) => Len(run.trace) >= n + 1

C7_Witness ==
    \E r \in RunIds :
        /\ runs[r].plan = JsonArray(PlanUnknown)
        /\ Len(runs[r].trace) >= 2
        /\ runs[r].trace[1].response.parts = <<"Error: Unknown agent \"", "FooAgent", "\".">>
        /\ runs[r].trace[2].agent = ImageAnalysisAgent

\* C8: ImageAnalysis without an attached image, Summarization without a text and
\* Knowledge with an empty retrieval result each yield an explanatory result (for
\* Knowledge without sources) with no language-model call, and the next step of
\* the plan is dispatched.
SoftFailure(run, n) ==
    LET t == run.trace[n] IN
    \/ t.agent = ImageAnalysisAgent /\ run.closure.attachedImage = [none |-> TRUE]
    \/ t.agent = SummarizationAgent /\
            \/ t.prompt = <<>>
            \/ \E k \in 1..Len(run.closure.uploadedFiles) :
                    /\ run.closure.uploadedFiles[k].name = t.prompt
                    /\ \A j \in 1..(k-1) : run.closure.uploadedFiles[j].name # t.prompt
                    /\ "textContent" \notin DOMAIN run.closure.uploadedFiles[k]
    \/ t.agent = KnowledgeAgent /\ t.retrieved = 0

Explanation(agent) ==
    CASE agent = ImageAnalysisAgent -> {"Error: No image was attached."}
      [] agent = SummarizationAgent ->
            {"Error: Could not find document or text to summarize for \""}
      [] agent = KnowledgeAgent ->
            {"I couldn't find any relevant information in the uploaded documents to answer that."}

C8_SoftFailuresContinue ==
    \A r \in RunIds :
        LET run == runs[r] IN
        \A n \in 1..Len(run.trace) :
            SoftFailure(run, n) =>
                /\ run.trace[n].calls = 0
                /\ run.pc # "thrown"
                /\ n = Len(run.stepOutputs) + 1 => run.pc = "resume"
                /\ n <= Len(run.stepOutputs) =>
                    /\ run.trace[n].response.parts[1] \in Explanation(run.trace[n].agent)
                    /\ "sources" \notin DOMAIN run.trace[n].response
                    /\ run.stepOutputs[n].value = run.trace[n].response.parts
                    /\ n < Len(Steps(run)) => Len(run.trace) >= n + 1

C8_Witness ==
    \E r, q \in RunIds :
        /\ runs[r].plan = JsonArray(PlanSoft)
        /\ Len(runs[r].trace) = 4
        /\ SoftFailure(runs[r], 1) /\ SoftFailure(runs[r], 2) /\ SoftFailure(runs[r], 3)
        /\ runs[r].trace[2].response.parts = NoInformationResponse.parts
        /\ runs[q].plan = JsonArray(PlanUnknown)
        /\ Len(runs[q].trace) = 3
        /\ SoftFailure(runs[q], 2)
        /\ runs[q].trace[2].response.parts = <<"Error: No image was attached.">>

\* C9: findSimilarChunks returns the empty sequence when the index is empty or
\* the query could not be embedded.
C9_EmptyRetrieval ==
    query.pc = "done" /\ (vectorStore = <<>> \/ query.embedded = "failed")
        => query.result = <<>>

C9_Witness ==
    /\ query.pc = "done"
    /\ query.embedded = "failed"
    /\ Len(vectorStore) = MaxChunks
    /\ query.result = <<>>

\* C10: with a non-empty index and an embedded query the result has min(3, index
\* size) chunks in non-increasing order of dot product, no chunk left out scores
\* higher than a returned one, and of two chunks with the same score the one
\* inserted first comes first and is the one kept.
Score(k) ==
    query.queryEmbedding[1] * vectorStore[k].embedding[1]
        + query.queryEmbedding[2] * vectorStore[k].embedding[2]
Position(j) == CHOOSE k \in 1..Len(vectorStore) : vectorStore[k].chunk = query.result[j].chunk
Before(k1, k2) == Score(k1) > Score(k2) \/ (Score(k1) = Score(k2) /\ k1 < k2)
C10_TopThreeRanked ==
    query.pc = "done" /\ query.embedded = "yes" /\ vectorStore # <<>> =>
        LET n == Len(query.result)
            returned == {Position(j) : j \in 1..n}
        IN /\ n = IF Len(vectorStore) < 3 THEN Len(vectorStore) ELSE 3
           /\ \A j \in 1..n : \E k \in 1..Len(vectorStore) :
                    /\ vectorStore[k].chunk = query.result[j].chunk
                    /\ vectorStore[k].fileName = query.result[j].fileName
                    /\ query.result[j].similarity = Score(k)
           /\ \A i, j \in 1..n : i < j => Before(Position(i), Position(j))
           /\ \A k \in 1..Len(vectorStore) : k \notin returned =>
                    \A j \in 1..n : Before(Position(j), k)

C10_Witness ==
    /\ query.pc = "done"
    /\ query.embedded = "yes"
    /\ Len(vectorStore) = 4
    /\ Len(query.result) = 3
    /\ Score(1) < Score(2) /\ Score(2) = Score(3) /\ Score(3) = Score(4)
    /\ query.result[1].chunk = <<"c2">>
    /\ query.result[3].chunk = <<"c4">>


\* C11: a call of findSimilarChunks leaves the index as it was, contents and
\* order, and returns what every earlier call with the same query embedding
\* returned: the same chunks in the same order.
C11_RepeatableRetrieval ==
    \A call \in query.earlier :
        /\ call.index = vectorStore
        /\ query.pc = "done" /\ query.queryEmbedding = call.queryEmbedding
                => query.result = call.result

C11_Witness ==
    /\ query.pc = "done"
    /\ query.embedded = "yes"
    /\ Len(query.result) = 3
    /\ Len(vectorStore) = 4
    /\ query.result[1].chunk # vectorStore[1].chunk
    /\ \E call \in query.earlier :
            call.queryEmbedding = query.queryEmbedding /\ call.result = query.result
    /\ \E call \in query.earlier :
            call.queryEmbedding \notin {query.queryEmbedding, NoEmbedding}

\* the chunks of one embedded file that got an embedding, as index records
Embedded(e) ==
    LET kept == {j \in 1..Len(e.chunks) : e.embeddings[j] # <<>>}
        Nth(n) == CHOOSE j \in kept : Cardinality({h \in kept : h < j}) = n - 1
    IN [n \in 1..Cardinality(kept) |->
            [fileName |-> e.fileName, chunk |-> e.chunks[Nth(n)],
             embedding |-> e.embeddings[Nth(n)]]]
RECURSIVE EmbeddedAll(_)
EmbeddedAll(embedded) ==
    IF embedded = <<>> THEN <<>>
    ELSE EmbeddedAll(SubSeq(embedded, 1, Len(embedded) - 1))
            \o Embedded(embedded[Len(embedded)])
Merges(p) == ingests[p].pc # "done" /\ ingests'[p].pc = "done"

\* C12: every chunk in the index has an embedding; the batch an ingest collects
\* is, file by file, exactly the chunks of the file for which
\* getClientSideEmbedding returned a vector; and the merge appends that batch.
C12_StoredIffEmbedded ==
    /\ [](/\ \A j \in 1..Len(vectorStore) : vectorStore[j].embedding # <<>>
          /\ \A p \in IngestIds :
                /\ ingests[p].newVectors = EmbeddedAll(ingests[p].embedded)
                /\ \A n \in 1..Len(ingests[p].embedded) :
                        \E f \in 1..Len(ingests[p].files) :
                            /\ ingests[p].files[f].name = ingests[p].embedded[n].fileName
                            /\ ingests[p].embedded[n].chunks =
                                    ChunkDocument(ingests[p].files[f].fileObject))
    /\ [][\A p \in IngestIds :
            Merges(p) => vectorStore' = vectorStore \o EmbeddedAll(ingests'[p].embedded)]_vars

C12_Witness ==
    \E p \in IngestIds :
        /\ ingests[p].pc = "done"
        /\ Len(ingests[p].embedded) = 2
        /\ ingests[p].embedded[1].embeddings = <<<<>>, <<1, 1>>>>
        /\ ingests[p].embedded[2].embeddings = <<<<1, 1>>, <<>>>>
        /\ Len(ingests[p].newVectors) = 2
        /\ removed = <<>>
        /\ vectorStore = DocVectors \o ingests[p].newVectors

\* the index without the chunks of one source
RECURSIVE Without(_, _)
Without(store, name) ==
    IF store = <<>> THEN <<>>
    ELSE IF Head(store).fileName = name THEN Without(Tail(store), name)
    ELSE <<Head(store)>> \o Without(Tail(store), name)
Removes == Len(removed') = Len(removed) + 1
RemovedName == removed'[Len(removed')]

\* C13: removeFile(name) leaves no chunk of the source name in the index and
\* keeps every chunk of the other sources, with its embedding and in the same
\* order; with no chunk of that source the index is as before.
C13_RemoveFileFrame ==
    [][Removes =>
        /\ \A j \in 1..Len(vectorStore') : vectorStore'[j].fileName # RemovedName
        /\ vectorStore' = Without(vectorStore, RemovedName)
        /\ (\A j \in 1..Len(vectorStore) : vectorStore[j].fileName # RemovedName)
                => vectorStore' = vectorStore]_vars

C13_Witness ==
    /\ removed = << <<"d.txt">> >>
    /\ ingests[1].pc = "done"
    /\ Len(ingests[1].newVectors) = 4
    /\ vectorStore = SubSeq(ingests[1].newVectors, 3, 4)
    /\ vectorStore[1].fileName = <<"n.txt">>

\* C14: the index holds no chunk of a document that has been removed and is not
\* in the file list again.
C14_NoChunkOutlivesItsDocument ==
    \A n \in 1..Len(removed) :
        (\A f \in 1..Len(uploadedFiles) : uploadedFiles[f].name # removed[n])
            => \A j \in 1..Len(vectorStore) : vectorStore[j].fileName # removed[n]

\* C15: the index changes only by the merge of an ingest, which appends the whole
\* batch of that ingest in one update, or by a removal; and a message captures the
\* index of the moment it is sent, which findSimilarChunks then ranks. So a query
\* sees all the chunks of a batch or none of them.
C15_MergeIsAtomic ==
    /\ [][vectorStore' # vectorStore =>
            \/ \E p \in IngestIds :
                    /\ Merges(p)
                    /\ vectorStore' = vectorStore \o ingests'[p].newVectors
                    /\ ingests'[p].newVectors = EmbeddedAll(ingests'[p].embedded)
            \/ Removes /\ vectorStore' = Without(vectorStore, RemovedName)]_vars
    /\ [][\A r \in RunIds :
            runs[r].pc = "idle" /\ runs'[r].pc # "idle"
                => runs'[r].closure.vectorStore = vectorStore]_vars
    /\ [](\A r \in RunIds : \A n \in 1..Len(runs[r].trace) :
            runs[r].trace[n].retrieved \in
                {-1, Min(TopK, Len(runs[r].closure.vectorStore))})

C15_Witness ==
    \E r \in RunIds, p \in IngestIds :
        /\ runs[r].pc = "gemini"
        /\ runs[r].trace[1].retrieved = 2
        /\ runs[r].closure.vectorStore = DocVectors
        /\ ingests[p].pc = "done"
        /\ Len(ingests[p].newVectors) = 2
        /\ vectorStore = DocVectors \o ingests[p].newVectors

\* C20: when step n of a plan of N steps is handed to callAgent, the last entry
\* of the chat history is the progress entry of that step, with current = n,
\* total = N and task = the prompt that callAgent is called with.
C20_ProgressBeforeDispatch ==
    [][\A r \in RunIds :
        Len(runs'[r].trace) = Len(runs[r].trace) + 1 =>
            LET n == Len(runs'[r].trace)
                last == chatHistory'[Len(chatHistory')]
            IN /\ "thinking" \in DOMAIN last
               /\ last.agent = runs'[r].trace[n].agent
               /\ last.step = [current |-> n, total |-> Len(Steps(runs'[r])),
                               task |-> runs'[r].trace[n].prompt]
               /\ \A k \in 1..Len(chatHistory) : chatHistory[k] # last]_vars

C20_Witness ==
    \E r \in RunIds :
        /\ runs[r].pc = "gemini"
        /\ Len(runs[r].trace) = 2
        /\ runs[r].trace[2].prompt = <<"use ", "RESULT">>
        /\ chatHistory[Len(chatHistory)].step =
                [current |-> 2, total |-> 2, task |-> <<"use ", "RESULT">>]

\* the arguments the claims on chunkText are about: overlap below chunkSize
ValidChunking == chunker.pc = "returned" /\ chunker.overlap < chunker.chunkSize
Stride == chunker.chunkSize - chunker.overlap
Ceiling(a, b) == (a + b - 1) \div b

\* C16: with 0 <= overlap < chunkSize, chunkText returns ceil(L / (chunkSize -
\* overlap)) chunks for a text of L characters, and no chunk exactly when the text
\* is empty.
C16_ChunkCount ==
    ValidChunking =>
        /\ Len(chunker.chunks) = Ceiling(Len(chunker.text), Stride)
        /\ chunker.chunks = <<>> <=> chunker.text = <<>>

C16_Witness ==
    /\ ValidChunking
    /\ Len(chunker.text) = 4 /\ chunker.chunkSize = 3 /\ chunker.overlap = 1
    /\ Len(chunker.chunks) = 2

\* C17: with overlap < chunkSize, chunk number n (from 0) is the text from offset
\* n * (chunkSize - overlap), min(chunkSize, L - offset) characters long, and every
\* character of the text lies in some chunk.
C17_ChunkContents ==
    ValidChunking =>
        /\ \A n \in 0..(Len(chunker.chunks) - 1) :
                LET offset == n * Stride
                    length == Min(chunker.chunkSize, Len(chunker.text) - offset)
                IN /\ length >= 1
                   /\ chunker.chunks[n + 1] =
                        [k \in 1..length |-> chunker.text[offset + k]]
        /\ \A k \in 1..Len(chunker.text) :
                \E n \in 0..(Len(chunker.chunks) - 1) :
                    /\ n * Stride < k
                    /\ k <= n * Stride + Len(chunker.chunks[n + 1])

C17_Witness ==
    /\ ValidChunking
    /\ chunker.text = <<"a", "b", "b", "a">>
    /\ chunker.chunkSize = 3 /\ chunker.overlap = 2
    /\ chunker.chunks = << <<"a", "b", "b">>, <<"b", "b", "a">>, <<"b", "a">>, <<"a">> >>

\* the text from a 0-based offset, at most length characters of it
SourceText(offset, length) ==
    [k \in 1..Min(length, Len(chunker.text) - offset) |-> chunker.text[offset + k]]
FirstCharacters(s, n) == SubSeq(s, 1, Min(n, Len(s)))
AfterFirstCharacters(s, n) == SubSeq(s, Min(n, Len(s)) + 1, Len(s))

\* C18 as claimed: chunk n followed by the first overlap characters of chunk
\* n + 1 is the text that starts at the offset of chunk n and has that length.
C18_OverlapPrefixContinues ==
    ValidChunking =>
        \A n \in 0..(Len(chunker.chunks) - 2) :
            LET joined == chunker.chunks[n + 1]
                            \o FirstCharacters(chunker.chunks[n + 2], chunker.overlap)
            IN joined = SourceText(n * Stride, Len(joined))

\* C18 as amended: the first overlap characters of chunk n + 1 repeat the end of
\* chunk n, so chunk n followed by chunk n + 1 without its first overlap
\* characters is the text that starts at the offset of chunk n and has that length.
C18_ChunksJoinAfterOverlap ==
    ValidChunking =>
        \A n \in 0..(Len(chunker.chunks) - 2) :
            LET joined == chunker.chunks[n + 1]
                            \o AfterFirstCharacters(chunker.chunks[n + 2], chunker.overlap)
            IN /\ joined = SourceText(n * Stride, Len(joined))
               /\ Len(joined) = Min(2 * chunker.chunkSize - chunker.overlap,
                                    Len(chunker.text) - n * Stride)

C18_Witness ==
    /\ ValidChunking
    /\ chunker.text = <<"a", "b", "a", "a">>
    /\ chunker.chunkSize = 3 /\ chunker.overlap = 1
    /\ chunker.chunks = << <<"a", "b", "a">>, <<"a", "a">> >>

\* C19: called with overlap >= chunkSize on a text that is not empty, chunkText
\* stops with a configuration error before it has done anything: it pushes no
\* chunk and does not go round the loop.
C19_OverlapRejected ==
    chunker.pc # "idle" /\ chunker.overlap >= chunker.chunkSize /\ chunker.text # <<>>
        => chunker.chunks = <<>> /\ chunker.i = 0

\* what the code does with such arguments: the loop index never grows, so the
\* call never returns
C19_NeverReturns ==
    chunker.pc # "idle" /\ chunker.overlap >= chunker.chunkSize /\ chunker.text # <<>>
        => chunker.pc = "loop" /\ chunker.i <= 0

\* the chat entries that are progress entries
IsThinking(entry) == "thinking" \in DOMAIN entry
Completes(r) == Len(runs'[r].stepOutputs) = Len(runs[r].stepOutputs) + 1
Idle == \A r \in RunIds : runs[r].pc \in {"idle", "done", "thrown"}

\* C21: the update that records the result of step n removes from the chat
\* history the progress entry of that step, which is then its last entry, and puts
\* the result in its place; once no plan is running the chat history has no
\* progress entry.
C21_ResultReplacesProgress ==
    /\ [][\A r \in RunIds :
            Completes(r) =>
                LET n == Len(runs'[r].stepOutputs)
                    last == chatHistory[Len(chatHistory)]
                IN /\ IsThinking(last)
                   /\ last.agent = runs[r].trace[n].agent
                   /\ last.step = [current |-> n, total |-> Len(Steps(runs[r])),
                                   task |-> runs[r].trace[n].prompt]
                   /\ SubSeq(chatHistory', 1, Len(chatHistory) - 1)
                        = SubSeq(chatHistory, 1, Len(chatHistory) - 1)]_vars
    /\ [](Idle => \A k \in 1..Len(chatHistory) : ~IsThinking(chatHistory[k]))

\* C22: stepOutputs is empty when the first step is resolved; recording step n
\* appends the key step_n_output with the text of the result of step n and leaves
\* the earlier entries as they are; and the prompt of a step is resolved from the
\* outputs of its own execution only.
C22_StepOutputsGrow ==
    /\ [](\A r \in RunIds :
            LET run == runs[r] IN
            /\ \A n \in 1..Len(run.stepOutputs) :
                    /\ run.stepOutputs[n].key = n
                    /\ run.stepOutputs[n].value = run.trace[n].response.parts
            /\ \A n \in 1..Len(run.trace) :
                    /\ n - 1 <= Len(run.stepOutputs)
                    /\ run.trace[n].prompt =
                            SubstituteOutputs(Steps(run)[n].prompt,
                                              SubSeq(run.stepOutputs, 1, n - 1))
            /\ Len(run.trace) >= 1 => run.trace[1].prompt = Steps(run)[1].prompt)
    /\ [][\A r \in RunIds :
            \/ runs'[r].stepOutputs = runs[r].stepOutputs
            \/ /\ Completes(r)
               /\ SubSeq(runs'[r].stepOutputs, 1, Len(runs[r].stepOutputs))
                    = runs[r].stepOutputs]_vars

C22_Witness ==
    \E r, q \in RunIds :
        /\ r # q
        /\ runs[r].pc = "done"
        /\ Len(runs[r].stepOutputs) = 4
        /\ runs[r].stepOutputs[4].value = <<"RESULT">>
        /\ runs[q].plan = JsonArray(PlanRefs)
        /\ Len(runs[q].trace) = 1
        /\ Contains(runs[q].trace[1].prompt, "{{step_1_output}}")

\* the entries of the chat history that are step results, and the results a plan
\* execution has produced so far, as the specification marks them
StepResults(history) == SelectSeq(history, LAMBDA entry : "finalStep" \in DOMAIN entry)
ResultsOf(r) ==
    [n \in 1..Len(runs[r].stepOutputs) |->
        [finalStep |-> (n = Len(Steps(runs[r])))] @@ runs[r].trace[n].response]

\* C23: handleSendMessage gets past executePlan only when every step of the plan
\* has produced its result; the step results in the chat history are those of the
\* plan executions, each in plan order, and of the N results of a finished
\* execution the last one alone is marked as the final step.
C23_AllStepsThenDone ==
    /\ StepResults(chatHistory) = ConcatAll([r \in RunIds |-> ResultsOf(r)])
    /\ \A r \in RunIds :
            runs[r].pc = "done" /\ PlanIsRunnable(runs[r].plan) =>
                /\ Len(runs[r].stepOutputs) = Len(runs[r].plan.items)
                /\ Len(runs[r].trace) = Len(runs[r].plan.items)
                /\ ResultsOf(r)[Len(runs[r].plan.items)].finalStep

C23_Witness ==
    \E r \in RunIds :
        /\ runs[r].pc = "done"
        /\ runs[r].plan = JsonArray(PlanUnknown)
        /\ Len(StepResults(chatHistory)) = 3
        /\ ~StepResults(chatHistory)[1].finalStep
        /\ ~StepResults(chatHistory)[2].finalStep
        /\ StepResults(chatHistory)[3].finalStep
        /\ StepResults(chatHistory)[3].agent = WebSearchAgent

\* C24: the plan of an execution is, at every point of the execution and after
\* it, the plan callPlanner returned: the same steps with the same agent names
\* and prompt templates, also after prompts have been resolved from them; the plan
\* shown in the chat history is that plan too.
C24_PlanNeverMutated ==
    /\ \A r \in RunIds :
            Started(runs[r]) =>
                runs[r].plan = ParsePlan(runs[r].planJsonString, runs[r].prompt)
    /\ \A k \in 1..Len(chatHistory) :
            "plan" \in DOMAIN chatHistory[k] =>
                \E r \in RunIds :
                    /\ Started(runs[r])
                    /\ chatHistory[k].plan =
                            ParsePlan(runs[r].planJsonString, runs[r].prompt)

C24_Witness ==
    \E r \in RunIds :
        /\ runs[r].pc = "done"
        /\ runs[r].planJsonString = <<"[PlanSubst]">>
        /\ runs[r].trace[2].prompt = <<"use ", "RESULT">>
        /\ runs[r].plan.items[2].prompt = <<"use ", "{{step_1_output}}">>
        /\ Len(runs[r].plan.items) = 2

Sends(r) == runs[r].pc = "idle" /\ runs'[r].pc # "idle"

\* C25: the history handleSendMessage hands to callPlanner has at most 4 entries,
\* and they are the last entries of the chat history as it is when the message is
\* sent, in the same order.
C25_RecentSuffix ==
    /\ [](\A r \in RunIds : Len(runs[r].recentHistory) <= 4)
    /\ [][\A r \in RunIds :
            Sends(r) =>
                LET recent == runs'[r].recentHistory
                    skipped == Len(chatHistory) - Len(recent)
                IN /\ Len(recent) = Min(4, Len(chatHistory))
                   /\ \A k \in 1..Len(recent) : recent[k] = chatHistory[skipped + k]]_vars

C25_Witness ==
    \E r \in RunIds :
        /\ Len(runs[r].recentHistory) = 4
        /\ Len(chatHistory) >= 6
        /\ runs[r].recentHistory[1] = chatHistory[2]
        /\ runs[r].recentHistory[1].role = "user"
        /\ "finalStep" \in DOMAIN runs[r].recentHistory[4]

\* the content of the fenced block of a response that has one: the text between
\* the first opening marker and the first closing marker after it
FencedContent(s) ==
    LET a == CHOOSE a \in 1..Len(s) : s[a] = FenceOpen /\ \A j \in 1..(a-1) : s[j] # FenceOpen
        b == CHOOSE b \in (a+1)..Len(s) :
                s[b] = FenceClose /\ \A j \in (a+1)..(b-1) : s[j] # FenceClose
    IN [k \in 1..(b - a - 1) |-> s[a + k]]
BlockParses(s) == IsText(s) /\ ~NoFencedBlock(s) /\ JSONParse(FencedContent(s)).ok
WholeParses(s) == IsText(s) /\ JSONParse(s).ok

\* C26: the plan callPlanner returns is the parse of the content of the fenced block
\* when the response has one and its content parses, whatever stands outside the
\* block; the parse of the whole response when the response has no fenced block
\* and parses; and the WebSearch fallback plan exactly when neither parse succeeds.
C26_TwoStageParse ==
    \A r \in RunIds :
        LET run == runs[r]
            s == run.planJsonString
        IN Started(run) =>
            /\ BlockParses(s) => run.plan = JSONParse(FencedContent(s)).value
            /\ IsText(s) /\ NoFencedBlock(s) /\ WholeParses(s) =>
                    run.plan = JSONParse(s).value
            /\ run.plan = FallbackPlan(run.prompt) <=> ~BlockParses(s) /\ ~WholeParses(s)

C26_Witness ==
    \E r, q \in RunIds :
        /\ Started(runs[r])
        /\ runs[r].planJsonString = <<"[]">>
        /\ runs[r].plan = JsonArray(<<>>)
        /\ Started(runs[q])
        /\ runs[q].planJsonString = <<"Plan: ", FenceOpen, "[PlanRefs]", FenceClose, " Done.">>
        /\ runs[q].plan = JsonArray(PlanRefs)

\* C27: a handleSendMessage invocation that has passed the guard gets to its end
\* with isLoading false, whatever the chat history holds and whatever the
\* collaborators answer, as long as they answer (the responses of the exploration
\* are not used up).
C27_SendEventuallyFinishes ==
    \A r \in RunIds :
        (runs[r].pc \notin {"idle", "done"})
            ~> ((runs[r].pc = "done" /\ ~isLoading) \/ responses = MaxResponses)

InProgress(run) == run.pc \in {"planner", "embedding", "gemini", "resume"}

\* C28: isLoading is true as long as a handleSendMessage invocation is planning
\* or executing its plan, and no message is accepted while another one is in
\* progress: at most one plan execution runs at a time.
C28_OneExecutionAtATime ==
    /\ [](\A r \in RunIds : InProgress(runs[r]) => isLoading)
    /\ [][\A r \in RunIds :
            Sends(r) => \A q \in RunIds : ~InProgress(runs[q])]_vars

InFlight(ingest) == ingest.pc \in {"parsing", "embedding"}

\* C29: isIndexing is true as long as a processAndEmbedFiles call is in flight,
\* and no message is accepted while one is.
C29_IndexingWhileIngesting ==
    /\ []((\E p \in IngestIds : InFlight(ingests[p])) => isIndexing)
    /\ [][\A r \in RunIds :
            Sends(r) => \A p \in IngestIds : ~InFlight(ingests[p])]_vars

\* s occurs in t as a contiguous part
OccursIn(s, t) == \E a \in 0..(Len(t) - Len(s)) : SubSeq(t, a + 1, a + Len(s)) = s

\* C30: the recorded output of step j stands, as it is, in the prompt resolved
\* for a later step whose template refers to step j, also when that output holds
\* the text of a placeholder.
C30_InsertedTextVerbatim ==
    \A r \in RunIds : \A n \in 1..Len(runs[r].trace) : \A j \in 1..(n - 1) :
        Contains(Steps(runs[r])[n].prompt, Placeholder(j))
            => OccursIn(Str(runs[r].stepOutputs[j].value), runs[r].trace[n].prompt)

\* the records of an index, as a set
Records(store) == {store[j] : j \in 1..Len(store)}

\* C31: the merge of an ingest leaves the chunks that are in the index where and
\* as they are and puts its batch behind them; and once an ingest has merged,
\* every chunk of its batch is in the index, whichever other ingest was under way
\* or has merged in between, unless its file has been removed.
C31_MergeAppendsOnly ==
    /\ [][\A p \in IngestIds :
            Merges(p) =>
                /\ Len(vectorStore') = Len(vectorStore) + Len(ingests'[p].newVectors)
                /\ SubSeq(vectorStore', 1, Len(vectorStore)) = vectorStore
                /\ SubSeq(vectorStore', Len(vectorStore) + 1, Len(vectorStore'))
                        = ingests'[p].newVectors]_vars
    /\ [](\A p \in IngestIds :
            ingests[p].pc = "done" =>
                \A v \in Records(EmbeddedAll(ingests[p].embedded)) :
                    (\A n \in 1..Len(removed) : removed[n] # v.fileName)
                        => v \in Records(vectorStore))

C31_Witness ==
    /\ ingests[1].pc = "done" /\ ingests[2].pc = "done"
    /\ Len(ingests[1].newVectors) = 2
    /\ Len(ingests[2].newVectors) = 1
    /\ removed = <<>>
    /\ vectorStore = DocVectors \o ingests[2].newVectors \o ingests[1].newVectors

====
